---- MODULE Spec2Model ----
(***************************************************************************)
(* GenericSync (pkg/data/generic.go): the worker that replicates one       *)
(* Kubernetes resource type into OPA.  The model holds the worker's retry  *)
(* loop (loop), one cycle (sync), the three sink calls (syncReset,         *)
(* syncAdd, syncRemove), and the two collaborators the worker talks to:    *)
(* the remote collection with its list/watch interface and the OPA         *)
(* subtree under the worker's prefix.                                      *)
(***************************************************************************)
EXTENDS Integers, Sequences, FiniteSets, TLC

VARIABLES
    namespaced,       \* s.ns.Namespaced, fixed at construction
    remote,           \* the remote collection: the set of objects that exist
    history,          \* every change of the remote collection, in order
    chFault,          \* what the open watch delivers next instead of a change
    calm,             \* TRUE once source and sink have stopped failing/changing
    quit,             \* the quit channel: "open", "sending" or "received"
    sel,              \* the case a blocked select has been woken with
    pc,               \* where the worker's goroutine is
    delay,            \* loop's local delay (seconds)
    err,              \* the error sync returned to loop
    items,            \* result.Items of this cycle's List
    resourceVersion,  \* result.GetResourceVersion() of this cycle's List
    listVersion,      \* the resource version the server gave this listing
    idx,              \* number of listed items loaded so far
    watching,         \* TRUE while the watch w of this cycle is open
    watchFrom,        \* the ResourceVersion the watch was opened with
    wpos,             \* position in history of the last change taken from ch
    evt,              \* the last value received from ch
    timer,            \* the duration of the timer t of the last backoff wait
    logged,           \* the delay printed by the last "Trying again in" message
    trace,            \* the calls this cycle has issued to source and sink
    data,             \* the OPA subtree under the worker's prefix: path -> object
    streak,           \* consecutive source-failed cycles since the start (SpecCounted)
    fleet             \* two workers side by side and the store they share (SpecPair)

vars == <<fleet, namespaced, remote, history, chFault, calm, quit, sel, pc,
          delay, err, items, resourceVersion, listVersion, idx, watching,
          watchFrom, wpos, evt, timer, logged, trace, data, streak>>

(***************************************************************************)
(* Bounds of the model.                                                    *)
(***************************************************************************)
MaxChanges == 2     \* changes the remote collection undergoes in a run
MaxStreak == 3      \* the streak of source failures is counted up to here

(***************************************************************************)
(* Program constants (seconds).                                            *)
(***************************************************************************)
backoffMax == 30
backoffMin == 1

(***************************************************************************)
(* Objects.  The worker reads only the namespace and the name of an        *)
(* object (meta.Accessor); gen stands for the rest of its content and is   *)
(* the revision at which the object was last written.                      *)
(***************************************************************************)
NoObj == [namespace |-> "", name |-> "", gen |-> -1]

\* The identities the remote collection can hold: two objects of the same
\* name in two namespaces for a namespaced type, two names otherwise.
Idents(nsd) ==
    IF nsd THEN {<<"n1", "a">>, <<"n2", "a">>}
           ELSE {<<"", "a">>, <<"", "b">>}

Obj(id, g) == [namespace |-> id[1], name |-> id[2], gen |-> g]

IdOf(o) == <<o.namespace, o.name>>

\* Every ordering of a finite set, as sequences without repetition.
Orderings(S) ==
    {s \in [1..Cardinality(S) -> S] : \A x \in S : \E i \in DOMAIN s : s[i] = x}

(***************************************************************************)
(* Errors.  An error value carries its dynamic type (what a type switch    *)
(* sees), the message it was wrapped with, and the conversion written at   *)
(* the return statement.  errKubernetes and errOPA are both declared as    *)
(* "type T error": named interface types with the method set of error, so  *)
(* converting to them leaves the dynamic type of the value as it was.      *)
(***************************************************************************)
Nil == [dyn |-> "nil", msg |-> "", conv |-> ""]

\* errors.Wrap(err, msg) converted with conv(...).
Wrap(conv, msg) == [dyn |-> "*errors.withStack", msg |-> msg, conv |-> conv]

\* fmt.Errorf("error event: %v", ...) converted with errKubernetes(...).
Errorf(conv, msg) == [dyn |-> "*errors.errorString", msg |-> msg, conv |-> conv]

\* The closed channel reported with errors.New instead of the struct type.
ChannelClosedPlain == [dyn |-> "*errors.errorString", msg |-> "channel closed",
                       conv |-> "errChannelClosed"]

\* errChannelClosed{}: a struct type with an Error method.
ChannelClosed == [dyn |-> "errChannelClosed", msg |-> "channel closed",
                  conv |-> "errChannelClosed"]

\* The methods of each dynamic type, and the methods each interface asks for.
MethodSet(dyn) == IF dyn = "nil" THEN {} ELSE {"Error"}

errKubernetes == {"Error"}

errOPA == {"Error"}

Implements(dyn, iface) == dyn # "nil" /\ iface \subseteq MethodSet(dyn)

\* switch err.(type): the first case, in source order, that the dynamic
\* type satisfies: identity for the struct type, implementation for the
\* interface types.
TypeSwitch(e) ==
    IF e.dyn = "errChannelClosed" THEN "errChannelClosed"
    ELSE IF Implements(e.dyn, errOPA) THEN "errOPA"
    ELSE IF Implements(e.dyn, errKubernetes) THEN "errKubernetes"
    ELSE "none"

(***************************************************************************)
(* Paths and the sink.                                                     *)
(***************************************************************************)
\* syncAdd leaving the namespace out of the path.
AddPathNameOnly(nsd, o) == o.name

\* syncAdd: the path PutData is called with.
AddPath(nsd, o) == IF nsd THEN o.namespace \o "/" \o o.name ELSE o.name

\* syncRemove leaving the namespace out of the path.
RemovePathNameOnly(nsd, o) == o.name

\* syncRemove: the path PatchData is called with.
RemovePath(nsd, o) == IF nsd THEN o.namespace \o "/" \o o.name ELSE o.name

Empty == [p \in {} |-> NoObj]

\* opa.PutData(path, obj) on the subtree.
PutData(d, path, o) ==
    [p \in DOMAIN d \cup {path} |-> IF p = path THEN o ELSE d[p]]

\* opa.PatchData(path, "remove", nil) on the subtree.
PatchRemove(d, path) == [p \in DOMAIN d \ {path} |-> d[p]]

\* The record of one call in trace.
Call(op, path, o) == [op |-> op, path |-> path, obj |-> o]

NoCall == Call("", "", NoObj)

(***************************************************************************)
(* The initial state: a GenericSync just started by Run, delay at          *)
(* backoffMin, about to call sync for the first time.  The remote          *)
(* collection holds any of its objects.                                    *)
(***************************************************************************)
NoEvent == [type |-> "none", object |-> NoObj]

\* No second worker: the worker of this model runs alone.
NoFleet == [types |-> <<>>, at |-> <<>>, store |-> <<>>, actor |-> 0]

\* One GenericSync just started.
Started ==
    /\ namespaced \in BOOLEAN
    /\ \E S \in SUBSET Idents(namespaced) : remote = {Obj(id, 0) : id \in S}
    /\ history = <<>>
    /\ chFault = "none"
    /\ calm = FALSE
    /\ quit = "open"
    /\ sel = "none"
    /\ pc = "sync"
    /\ delay = backoffMin
    /\ err = Nil
    /\ items = <<>>
    /\ resourceVersion = 0
    /\ listVersion = 0
    /\ idx = 0
    /\ watching = FALSE
    /\ watchFrom = 0
    /\ wpos = 0
    /\ evt = NoEvent
    /\ timer = 0
    /\ logged = 0
    /\ trace = <<>>
    /\ data = Empty
    /\ streak = 0

Init == Started /\ fleet = NoFleet

(***************************************************************************)
(* Blocking.  A select with no ready case parks the goroutine; the first   *)
(* channel operation that becomes possible wakes it with that case (sel).  *)
(* A select that finds several cases ready takes any of them.  A worker    *)
(* that has reached a select with no ready case may or may not have parked *)
(* yet when a case becomes ready.                                          *)
(***************************************************************************)
\* ch has a value to deliver: a change after wpos, an Error event, a value
\* of another type, or the closing of the channel.
EvtReady == watching /\ (chFault # "none" \/ wpos < Len(history))

BlockedInSelect == pc = "select" /\ sel = "none" /\ quit = "open" /\ ~EvtReady

BlockedInSleep == pc = "sleep" /\ sel = "none" /\ quit = "open"

\* The values sel can take when case c becomes ready: c if the worker is
\* parked, as it was if it is not.
Wake(c, blocked) == IF blocked THEN {sel, c} ELSE {sel}

(***************************************************************************)
(* The collaborators.                                                      *)
(***************************************************************************)
EnvVars == <<fleet, namespaced, remote, history, chFault, calm>>

WorkerVars == <<pc, delay, err, items, resourceVersion, listVersion, idx,
                watching, watchFrom, wpos, evt, timer, logged, trace, data, streak>>

\* The remote collection changes: an object is created, replaced or deleted,
\* and the change is appended to the stream every watch reads from.  What
\* happens to the collection after the worker has exited is left out.
RemoteChange ==
    /\ ~calm
    /\ pc # "exit"
    /\ Len(history) < MaxChanges
    /\ \E id \in Idents(namespaced) :
        LET n == Len(history) + 1
            old == {o \in remote : IdOf(o) = id}
        IN  \/ /\ old = {}
               /\ remote' = remote \cup {Obj(id, n)}
               /\ history' = Append(history, [type |-> "ADDED", object |-> Obj(id, n)])
            \/ /\ old # {}
               /\ remote' = (remote \ old) \cup {Obj(id, n)}
               /\ history' = Append(history, [type |-> "MODIFIED", object |-> Obj(id, n)])
            \/ /\ old # {}
               /\ remote' = remote \ old
               /\ \E o \in old :
                    history' = Append(history, [type |-> "DELETED", object |-> o])
    /\ sel' \in Wake("evt", BlockedInSelect)
    /\ UNCHANGED <<fleet, namespaced, chFault, calm, quit>>
    /\ UNCHANGED WorkerVars

\* The open watch ends: an Error event, an event of a type the worker does
\* not know, or the closing of the result channel.
WatchFault ==
    /\ ~calm
    /\ watching
    /\ chFault = "none"
    /\ \E f \in {"ERROR", "BOOKMARK", "CLOSED"} : chFault' = f
    /\ sel' \in Wake("evt", BlockedInSelect)
    /\ UNCHANGED <<fleet, namespaced, remote, history, calm, quit>>
    /\ UNCHANGED WorkerVars

\* The owner of the channel returned by Run sends on it.  quit is
\* unbuffered: the send stays pending until the worker receives.
Stop ==
    /\ quit = "open"
    /\ quit' = "sending"
    /\ sel' \in Wake("quit", BlockedInSelect \/ BlockedInSleep)
    /\ UNCHANGED EnvVars
    /\ UNCHANGED WorkerVars

\* From here on the source and the sink do not fail and the remote
\* collection does not change.
Calm ==
    /\ ~calm
    /\ pc # "exit"
    /\ calm' = TRUE
    /\ UNCHANGED <<fleet, namespaced, remote, history, chFault, quit, sel>>
    /\ UNCHANGED WorkerVars

(***************************************************************************)
(* sync: one cycle.                                                        *)
(***************************************************************************)
Min(a, b) == IF a < b THEN a ELSE b

SyncLocals == <<items, resourceVersion, listVersion, idx, watching, watchFrom, wpos, evt>>

LoopLocals == <<delay, timer, logged, streak>>

\* sync returning without stopping the watch it opened.
StopForgotten(open) == open

\* defer w.Stop(): whether the watch is still open once sync has returned.
DeferredStop(open) == FALSE

\* sync noting the error and carrying on where it was instead of returning.
ReturnSkipped(e) ==
    /\ err' = e
    /\ pc' = pc
    /\ watching' = watching

\* sync returns e to loop; the deferred w.Stop() has run if w was open.
Return(e) ==
    /\ err' = e
    /\ pc' = "switch"
    /\ watching' = DeferredStop(watching)

\* Where sync goes after k of the listed items are loaded.
AfterLoad(its, k) == IF k < Len(its) THEN "load" ELSE "watch"

\* sync resetting the subtree before it looks at the result of List.
ListResetFirst ==
    /\ pc = "sync"
    /\ trace' = <<Call("List", "", NoObj)>>
    /\ evt' = NoEvent
    /\ idx' = 0
    /\ data' = Empty
    /\ \/ /\ \E its \in Orderings(remote) : items' = its
          /\ listVersion' = Len(history)
          /\ resourceVersion' = listVersion'
          /\ pc' = "reset"
          /\ UNCHANGED <<err, watching>>
       \/ /\ ~calm
          /\ items' = <<>>
          /\ listVersion' = 0
          /\ resourceVersion' = 0
          /\ Return(Wrap("errKubernetes", "list"))
    /\ UNCHANGED <<watchFrom, wpos, quit, sel>>
    /\ UNCHANGED <<delay, timer, logged, streak>>
    /\ UNCHANGED <<fleet, namespaced, remote, history, chFault, calm>>

\* resource.List(metav1.ListOptions{}): the objects that exist now, in the
\* order the server gives them, and the resource version of that listing.
List ==
    /\ pc = "sync"
    /\ trace' = <<Call("List", "", NoObj)>>
    /\ evt' = NoEvent
    /\ idx' = 0
    /\ \/ /\ \E its \in Orderings(remote) : items' = its
          /\ listVersion' = Len(history)
          /\ resourceVersion' = listVersion'
          /\ pc' = "reset"
          /\ UNCHANGED <<err, watching>>
       \/ /\ ~calm
          /\ items' = <<>>
          /\ listVersion' = 0
          /\ resourceVersion' = 0
          /\ Return(Wrap("errKubernetes", "list"))
    /\ UNCHANGED <<watchFrom, wpos, data, quit, sel>>
    /\ UNCHANGED LoopLocals
    /\ UNCHANGED EnvVars

\* A reset that leaves the subtree as it is.
ResetValueKept == data

\* syncReset: the subtree after PutData("/", {}).
ResetValue == Empty

\* s.syncReset(): PutData("/", {}).
SyncReset ==
    /\ pc = "reset"
    /\ trace' = Append(trace, Call("PutData", "/", NoObj))
    /\ \/ /\ data' = ResetValue
          /\ pc' = AfterLoad(items, 0)
          /\ UNCHANGED <<err, watching>>
       \/ /\ ~calm
          /\ data' = data
          /\ Return(Wrap("errOPA", "reset"))
    /\ UNCHANGED <<items, resourceVersion, listVersion, idx, watchFrom, wpos, evt, quit, sel>>
    /\ UNCHANGED LoopLocals
    /\ UNCHANGED EnvVars

\* The load loop walking the listing backwards.
RangeItemReversed(its, k) == its[Len(its) + 1 - k]

\* The item the k-th iteration of "for _, item := range result.Items" loads.
RangeItem(its, k) == its[k]

\* One iteration of the load loop: s.syncAdd(&item).
LoadItem ==
    /\ pc = "load"
    /\ LET item == RangeItem(items, idx + 1)
           path == AddPath(namespaced, item)
       IN  /\ trace' = Append(trace, Call("PutData", path, item))
           /\ \/ /\ data' = PutData(data, path, item)
                 /\ idx' = idx + 1
                 /\ pc' = AfterLoad(items, idx + 1)
                 /\ UNCHANGED <<err, watching>>
              \/ /\ ~calm
                 /\ data' = data
                 /\ idx' = idx
                 /\ Return(Wrap("errOPA", "list add"))
    /\ UNCHANGED <<items, resourceVersion, listVersion, watchFrom, wpos, evt, quit, sel>>
    /\ UNCHANGED LoopLocals
    /\ UNCHANGED EnvVars

\* The watch opened with empty ListOptions, as the List is.
WatchOptionsEmpty == 0

\* The ResourceVersion of the ListOptions the watch is opened with.
WatchOptions == resourceVersion

\* resource.Watch(...), then defer w.Stop() and ch := w.ResultChan().
Watch ==
    /\ pc = "watch"
    /\ trace' = Append(trace, Call("Watch", "", NoObj))
    /\ \/ /\ watching' = TRUE
          /\ watchFrom' = WatchOptions
          /\ wpos' = WatchOptions
          /\ chFault' = "none"
          /\ pc' = "select"
          /\ UNCHANGED err
       \/ /\ ~calm
          /\ Return(Wrap("errKubernetes", "watch"))
          /\ UNCHANGED <<watchFrom, wpos, chFault>>
    /\ UNCHANGED <<items, resourceVersion, listVersion, idx, evt, data, quit, sel>>
    /\ UNCHANGED LoopLocals
    /\ UNCHANGED <<fleet, namespaced, remote, history, calm>>

\* The value "evt := <-ch" yields: the zero Event when ch is closed.
Receive ==
    IF chFault = "CLOSED" THEN [type |-> "", object |-> NoObj]
    ELSE IF chFault # "none" THEN [type |-> chFault, object |-> NoObj]
    ELSE history[wpos + 1]

\* The event loop with no case for Modified events: they are taken from the
\* channel and nothing is done with them.
HandleEventDropsModified(e, ok) ==
    CASE e.type = "ADDED" ->
           <<Call("PutData", AddPath(namespaced, e.object), e.object),
             IF ok THEN PutData(data, AddPath(namespaced, e.object), e.object)
                   ELSE data,
             IF ok THEN Nil ELSE Wrap("errOPA", "add event")>>
      [] e.type = "MODIFIED" ->
           <<NoCall, data, Nil>>
      [] e.type = "DELETED" ->
           <<Call("PatchData", RemovePath(namespaced, e.object), NoObj),
             IF ok THEN PatchRemove(data, RemovePath(namespaced, e.object))
                   ELSE data,
             IF ok THEN Nil ELSE Wrap("errOPA", "delete event")>>
      [] e.type = "ERROR" ->
           <<NoCall, data, Errorf("errKubernetes", "error event")>>
      [] OTHER ->
           <<NoCall, data, ChannelClosed>>

\* switch evt.Type: what the event loop does with e when the sink call, if
\* there is one, succeeds (ok) or fails: <<sink call, subtree, error>>, the
\* error being Nil when the loop goes on to the next select.
HandleEvent(e, ok) ==
    CASE e.type = "ADDED" ->
           LET path == AddPath(namespaced, e.object)
           IN  <<Call("PutData", path, e.object),
                 IF ok THEN PutData(data, path, e.object) ELSE data,
                 IF ok THEN Nil ELSE Wrap("errOPA", "add event")>>
      [] e.type = "MODIFIED" ->
           LET path == AddPath(namespaced, e.object)
           IN  <<Call("PutData", path, e.object),
                 IF ok THEN PutData(data, path, e.object) ELSE data,
                 IF ok THEN Nil ELSE Wrap("errOPA", "modify event")>>
      [] e.type = "DELETED" ->
           LET path == RemovePath(namespaced, e.object)
           IN  <<Call("PatchData", path, NoObj),
                 IF ok THEN PatchRemove(data, path) ELSE data,
                 IF ok THEN Nil ELSE Wrap("errOPA", "delete event")>>
      [] e.type = "ERROR" ->
           <<NoCall, data, Errorf("errKubernetes", "error event")>>
      [] OTHER ->
           <<NoCall, data, ChannelClosed>>

\* select, case evt := <-ch.
RecvEvent ==
    /\ pc = "select"
    /\ EvtReady
    /\ sel # "quit"
    /\ \E ok \in BOOLEAN :
        /\ ok \/ ~calm
        /\ LET e == Receive
               h == HandleEvent(e, ok)
           IN  /\ evt' = e
               /\ wpos' = IF chFault = "none" THEN wpos + 1 ELSE wpos
               /\ trace' = IF h[1] = NoCall THEN trace ELSE Append(trace, h[1])
               /\ data' = h[2]
               /\ IF h[3] = Nil
                    THEN pc' = "select" /\ UNCHANGED <<err, watching>>
                    ELSE Return(h[3])
    /\ chFault' = "none"
    /\ sel' = "none"
    /\ UNCHANGED <<items, resourceVersion, listVersion, idx, watchFrom, quit>>
    /\ UNCHANGED LoopLocals
    /\ UNCHANGED <<fleet, namespaced, remote, history, calm>>

\* The quit case returning as if the channel had closed.
QuitResultClosed == ChannelClosed

\* What sync returns when the select takes "case <-quit".
QuitResult == Nil

\* select, case <-quit.
RecvQuit ==
    /\ pc = "select"
    /\ quit = "sending"
    /\ sel # "evt"
    /\ quit' = "received"
    /\ Return(QuitResult)
    /\ UNCHANGED <<items, resourceVersion, listVersion, idx, watchFrom, wpos, evt, trace, data, sel>>
    /\ UNCHANGED LoopLocals
    /\ UNCHANGED EnvVars

(***************************************************************************)
(* loop: the retry loop around sync.                                       *)
(***************************************************************************)
\* case errChannelClosed: the new delay.
DelayOnChannelClosed(d) == backoffMin

\* The sink-failure case growing the delay like the source-failure case.
DelayOnOPADoubled(d) == Min(d * 2, backoffMax)

\* The sink-failure case doubling the delay with no upper limit.
DelayOnOPAUncapped(d) == d * 2

\* case errOPA: the new delay.
DelayOnOPA(d) == backoffMin

\* case errKubernetes: the new delay.
DelayOnKubernetes(d) == Min(d * 2, backoffMax)

\* The duration time.NewTimer is given, the new delay being d.
TimerFor(d) == d

\* loop calling sync again although sync returned nil.
OnNilRetry == "sync"

\* Where loop goes when sync returned nil.
OnNil == "exit"

\* Consecutive source-failed cycles since the start, counted up to
\* MaxStreak; -1 once another outcome or a longer streak has been seen.
NextStreak(e) ==
    IF e.conv = "errKubernetes" /\ streak >= 0 /\ streak < MaxStreak
    THEN streak + 1 ELSE -1

\* The next iteration of "for { err := s.sync(resource, quit) ... }": the
\* locals of the iteration that ended, its timer and its log line are gone.
NextIteration ==
    /\ pc' = "sync"
    /\ err' = Nil
    /\ items' = <<>>
    /\ resourceVersion' = 0
    /\ listVersion' = 0
    /\ idx' = 0
    /\ watchFrom' = 0
    /\ wpos' = 0
    /\ evt' = NoEvent
    /\ trace' = <<>>
    /\ timer' = 0
    /\ logged' = 0
    /\ UNCHANGED watching

\* "if err == nil { return }", then "switch err.(type)".  The streak of
\* source failures is an observer of the loop: it is counted when counted
\* is TRUE and left alone otherwise.
Loop(counted) ==
    /\ pc = "switch"
    /\ IF err = Nil
         THEN /\ pc' = OnNil
              /\ UNCHANGED <<delay, timer, logged, streak, err, trace>>
              /\ UNCHANGED SyncLocals
         ELSE /\ streak' = IF counted THEN NextStreak(err) ELSE streak
              /\ CASE TypeSwitch(err) = "errChannelClosed" ->
                        /\ delay' = DelayOnChannelClosed(delay)
                        /\ NextIteration
                   [] TypeSwitch(err) = "errOPA" ->
                        /\ logged' = delay
                        /\ delay' = DelayOnOPA(delay)
                        /\ timer' = TimerFor(delay')
                        /\ pc' = "sleep"
                        /\ UNCHANGED <<err, trace>>
                        /\ UNCHANGED SyncLocals
                   [] TypeSwitch(err) = "errKubernetes" ->
                        /\ logged' = delay
                        /\ delay' = DelayOnKubernetes(delay)
                        /\ timer' = TimerFor(delay')
                        /\ pc' = "sleep"
                        /\ UNCHANGED <<err, trace>>
                        /\ UNCHANGED SyncLocals
                   [] OTHER ->
                        /\ NextIteration
                        /\ UNCHANGED delay
    /\ UNCHANGED <<data, quit, sel>>
    /\ UNCHANGED EnvVars

LoopSwitch == Loop(FALSE)

LoopSwitchCounted == Loop(TRUE)

\* The backoff select, case <-t.C.
TimerFire ==
    /\ pc = "sleep"
    /\ sel # "quit"
    /\ NextIteration
    /\ UNCHANGED <<delay, streak>>
    /\ UNCHANGED <<data, quit, sel>>
    /\ UNCHANGED EnvVars

\* The backoff select, case <-quit.
SleepQuit ==
    /\ pc = "sleep"
    /\ quit = "sending"
    /\ quit' = "received"
    /\ pc' = "exit"
    /\ UNCHANGED <<err, trace, data, sel>>
    /\ UNCHANGED SyncLocals
    /\ UNCHANGED LoopLocals
    /\ UNCHANGED EnvVars

(***************************************************************************)
(* The specifications.                                                     *)
(***************************************************************************)
Worker ==
    \/ List
    \/ SyncReset
    \/ LoadItem
    \/ Watch
    \/ RecvEvent
    \/ LoopSwitch
    \/ TimerFire

Next ==
    \/ Worker
    \/ RecvQuit
    \/ SleepQuit
    \/ RemoteChange
    \/ WatchFault
    \/ Stop

Spec == Init /\ [][Next]_vars

\* The goroutine keeps running, a call that was made returns, a timer that
\* was set fires, and a select that finds quit ready again and again takes
\* it at some point.
NextCalm == Next \/ Calm

SpecFair ==
    /\ Init
    /\ [][NextCalm]_vars
    /\ WF_vars(Worker)
    /\ SF_vars(RecvQuit)
    /\ SF_vars(SleepQuit)

\* The runs in which the remote collection does not change and no stop is
\* signalled, with the streak of source failures counted.
NextCounted ==
    \/ List
    \/ SyncReset
    \/ LoadItem
    \/ Watch
    \/ RecvEvent
    \/ LoopSwitchCounted
    \/ TimerFire
    \/ WatchFault

SpecCounted == Init /\ [][NextCounted]_vars

(***************************************************************************)
(* Two workers side by side.  One GenericSync is made per resource type,   *)
(* all of them on the same OPA client, each through the client             *)
(* opa.Prefix(ns.Resource) that New derives from it.  Of each worker only  *)
(* its sink calls are kept: the reset that opens a cycle, the upserts and  *)
(* removes that follow in it, and the start of the next cycle.  The store  *)
(* maps a place, the prefix of a client and a path given to it, to the     *)
(* object written there and the resource type it is an object of.          *)
(***************************************************************************)
Groups == {"apps", "extensions"}

Versions == {"v1", "v1beta1"}

Resources == {"deployments", "pods"}

\* types.ResourceType, the Namespaced flag apart (namespaced holds it).
ResourceTypes == [group : Groups, version : Versions, resource : Resources]

Workers == {1, 2}

\* New: the prefix the worker's client is made with.
SinkPrefix(rt) == rt.resource

\* The place in the store that a path names through a client of prefix p.
Prefixed(p, path) == <<p, path>>

\* PutData("/", {}) through a client of prefix p: nothing is left under p.
ResetUnder(st, p) == [k \in {q \in DOMAIN st : q[1] # p} |-> st[k]]

SoloVars == <<namespaced, remote, history, chFault, calm, quit, sel, WorkerVars>>

\* Two workers just started for two different resource types.
InitPair ==
    /\ Started
    /\ remote = {}
    /\ \E t1, t2 \in ResourceTypes :
          /\ t1 # t2
          /\ fleet = [types |-> <<t1, t2>>, at |-> <<"reset", "reset">>,
                      store |-> Empty, actor |-> 0]

\* s.syncReset() of worker w.
PairReset(w) ==
    /\ fleet.at[w] = "reset"
    /\ fleet' = [fleet EXCEPT
                   !.store = ResetUnder(@, SinkPrefix(fleet.types[w])),
                   !.at[w] = "run",
                   !.actor = w]
    /\ UNCHANGED SoloVars

\* s.syncAdd(obj) of worker w, from the snapshot load or an event.
PairAdd(w) ==
    /\ fleet.at[w] = "run"
    /\ \E id \in Idents(namespaced) :
          LET o == Obj(id, 0)
              k == Prefixed(SinkPrefix(fleet.types[w]), AddPath(namespaced, o))
          IN  fleet' = [fleet EXCEPT
                          !.store = PutData(@, k, [obj |-> o,
                                                   of |-> fleet.types[w]]),
                          !.actor = w]
    /\ UNCHANGED SoloVars

\* s.syncRemove(obj) of worker w.
PairRemove(w) ==
    /\ fleet.at[w] = "run"
    /\ \E id \in Idents(namespaced) :
          LET o == Obj(id, 0)
              k == Prefixed(SinkPrefix(fleet.types[w]),
                            RemovePath(namespaced, o))
          IN  fleet' = [fleet EXCEPT !.store = PatchRemove(@, k), !.actor = w]
    /\ UNCHANGED SoloVars

\* sync of worker w returns and loop calls it again.
PairRetry(w) ==
    /\ fleet.at[w] = "run"
    /\ fleet' = [fleet EXCEPT !.at[w] = "reset", !.actor = 0]
    /\ UNCHANGED SoloVars

ResetOfEither == \E w \in Workers : PairReset(w)

AddOfEither == \E w \in Workers : PairAdd(w)

RemoveOfEither == \E w \in Workers : PairRemove(w)

RetryOfEither == \E w \in Workers : PairRetry(w)

NextPair == ResetOfEither \/ AddOfEither \/ RemoveOfEither \/ RetryOfEither

SpecPair == InitPair /\ [][NextPair]_vars

(***************************************************************************)
(* What the claims speak of.                                               *)
(***************************************************************************)
\* The path an object is mirrored at: its name, behind its namespace and a
\* slash when the resource type is namespaced.
MappedPath(o) ==
    IF namespaced THEN o.namespace \o "/" \o o.name ELSE o.name

\* A set of objects as a subtree: every object at its mapped path.
Subtree(objs) ==
    [p \in {MappedPath(o) : o \in objs} |->
        CHOOSE o \in objs : MappedPath(o) = p]

\* The objects of a listing.
Range(sq) == {sq[k] : k \in DOMAIN sq}

\* The subtree mirrors the remote collection.
Mirrored == data = Subtree(remote)

\* The changes this cycle has taken from the watch channel so far.
Consumed == SubSeq(history, watchFrom + 1, wpos)

\* The sink call an event asks for.
EventCall(e) ==
    IF e.type = "DELETED"
    THEN Call("PatchData", MappedPath(e.object), NoObj)
    ELSE Call("PutData", MappedPath(e.object), e.object)

\* The calls of a whole cycle over the listing its and the events evs.
CycleCalls(its, evs) ==
    <<Call("List", "", NoObj), Call("PutData", "/", NoObj)>>
    \o [k \in 1..Len(its) |-> Call("PutData", MappedPath(its[k]), its[k])]
    \o <<Call("Watch", "", NoObj)>>
    \o [k \in 1..Len(evs) |-> EventCall(evs[k])]

IsPrefix(a, b) == Len(a) <= Len(b) /\ SubSeq(b, 1, Len(a)) = a

\* C1: within one cycle the calls are issued in this order: List, one
\* reset, one upsert per listed item in listing order, Watch, then the
\* upsert or remove of each event in the order the events arrived; in the
\* event loop every one of them has been issued.
C1_CycleOrder ==
    /\ IsPrefix(trace, CycleCalls(items, Consumed))
    /\ pc = "select" => trace = CycleCalls(items, Consumed)

C1_Witness ==
    /\ pc = "select"
    /\ Len(items) = 2
    /\ Len(Consumed) = 2
    /\ Consumed[2].type = "DELETED"

\* C2: a cycle that ended with a source failure (List, Watch or an Error
\* event) is followed by the source-failure policy: the delay becomes
\* min(2 * delay, backoffMax) and the loop waits that long.
C2_SourcePolicy ==
    [][(pc = "switch" /\ err.conv = "errKubernetes" /\ pc' # pc)
         => (pc' = "sleep" /\ delay' = Min(2 * delay, backoffMax) /\ timer' = delay')]_vars

\* C3: from a fresh start the first three consecutive source failures are
\* followed by waits of 1, 2 and 4 seconds, and no wait exceeds 30 seconds.
C3_Waits ==
    /\ pc = "sleep" /\ streak = 1 => timer = 1
    /\ pc = "sleep" /\ streak = 2 => timer = 2
    /\ pc = "sleep" /\ streak = 3 => timer = 4
    /\ pc = "sleep" => timer <= 30

ApplyEvent(d, e) ==
    IF e.type = "DELETED"
    THEN [p \in DOMAIN d \ {MappedPath(e.object)} |-> d[p]]
    ELSE [p \in DOMAIN d \cup {MappedPath(e.object)} |->
            IF p = MappedPath(e.object) THEN e.object ELSE d[p]]

RECURSIVE ApplyEvents(_, _)
ApplyEvents(d, evs) ==
    IF evs = <<>> THEN d ELSE ApplyEvents(ApplyEvent(d, Head(evs)), Tail(evs))

Within(d, t) == \A p \in DOMAIN d : p \in DOMAIN t /\ d[p] = t[p]

InEventLoop == pc = "select"

LoadAborted(msgs) == pc \in {"switch", "sleep"} /\ err.msg \in msgs

\* C5 as claimed: in the event loop the subtree is the listing with the
\* consumed events applied; while the snapshot load runs, or after a sink
\* failure (reset or upsert) aborted it, the subtree is within the listing.
C5_AsClaimed ==
    /\ InEventLoop => data = ApplyEvents(Subtree(Range(items)), Consumed)
    /\ (pc = "load" \/ LoadAborted({"reset", "list add"}))
          => Within(data, Subtree(Range(items)))

\* C5 as amended: in the event loop the subtree is the listing with the
\* consumed events applied; while the snapshot load runs after its reset,
\* or after a rejected upsert aborted it, the subtree is within the listing.
C5_Amended ==
    /\ InEventLoop => data = ApplyEvents(Subtree(Range(items)), Consumed)
    /\ (pc = "load" \/ LoadAborted({"list add"}))
          => Within(data, Subtree(Range(items)))

C5_Witness ==
    /\ LoadAborted({"list add"})
    /\ Len(items) = 2
    /\ idx = 1
    /\ data = Subtree({items[1]})

\* C6: a stop signalled while the worker is blocked in the event loop or in
\* a backoff wait (sel = "quit") is followed by no further call and no
\* change of the subtree: the worker only moves to its exit, and an event
\* that arrives afterwards is not applied.
C6_StopWhileBlocked ==
    [][sel = "quit" =>
         /\ trace' = trace
         /\ data' = data
         /\ \/ pc' = pc
            \/ pc' = "exit"
            \/ pc = "select" /\ pc' = "switch" /\ err' = Nil]_vars

C6_Witness ==
    /\ pc = "exit"
    /\ sel = "quit"
    /\ err = Nil
    /\ wpos < Len(history)

\* C7: once a stop has been signalled on the quit channel, the retry loop
\* eventually terminates, whatever failures, closures and events follow.
C7_StopTerminates == (quit # "open") ~> (pc = "exit")

C7_Witness == pc = "exit" /\ err = Nil /\ sel = "none" /\ wpos > watchFrom

\* C8: the loop exits only when the stop signal has been received, and once
\* it has been received the worker issues no call and starts no cycle: it
\* only moves to its exit and stays there.
C8_ExitOnlyOnStop ==
    [][/\ pc' = "exit" => quit' = "received"
       /\ quit = "received" =>
            /\ pc \in {"switch", "exit"}
            /\ pc' \in {pc, "exit"}
            /\ trace' = trace]_vars

C8_Witness == pc = "exit" /\ quit = "received" /\ err # Nil

\* C9: a cycle that ended with a sink failure is followed by a wait of
\* exactly backoffMin, and the delay is backoffMin afterwards.
C9_SinkPolicy ==
    [][(pc = "switch" /\ err.conv = "errOPA" /\ pc' # pc)
         => (pc' = "sleep" /\ timer' = backoffMin /\ delay' = backoffMin)]_vars

C9_Witness == pc = "sleep" /\ err.msg = "delete event" /\ timer = backoffMin

\* C10: when the watch channel is closed or delivers an event of a type the
\* worker does not know, sync returns errChannelClosed, and loop then sets
\* the delay to backoffMin and calls sync again without a backoff wait.
C10_ChannelClosed ==
    [][(pc = "switch" /\ evt.type \in {"", "BOOKMARK"}) =>
         /\ err.conv = "errChannelClosed"
         /\ TypeSwitch(err) = "errChannelClosed"
         /\ pc' # pc => (pc' = "sync" /\ delay' = backoffMin /\ timer' = 0)]_vars

C10_Witness == pc = "switch" /\ evt.type = "" /\ err = ChannelClosed

\* C11: the watch a cycle opens is stopped on every path by which sync
\* returns after opening it: the worker holds a subscription only inside the
\* event loop of the cycle that opened it, so never more than one, none when
\* the next cycle opens its own, and none in a backoff wait or after exit.
C11_WatchStopped ==
    /\ pc \in {"switch", "sleep", "exit"} => ~watching
    /\ pc \in {"sync", "reset", "load", "watch"} => ~watching
    /\ watching => Len(trace) > 0 /\ trace[Len(trace)].op # "List"

\* sync has returned on an Error event of the watch it had opened, and the
\* worker waits with no subscription.
C11_Witness ==
    /\ pc = "sleep"
    /\ err.msg = "error event"
    /\ \E i \in DOMAIN trace : trace[i].op = "Watch"
    /\ ~watching

\* The watch of this cycle was opened (it may have been stopped since).
WatchOpened ==
    /\ \E i \in DOMAIN trace : trace[i].op = "Watch"
    /\ err.msg # "watch"

\* C12: the watch of a cycle is opened with exactly the resource version
\* the server returned with the listing of that same cycle: not the version
\* of an earlier cycle's listing, and not the empty version when the
\* listing had one.  The changes it delivers are those after the listing.
C12_WatchFromListing ==
    /\ WatchOpened => watchFrom = listVersion
    /\ watching => /\ watchFrom = listVersion
                   /\ watchFrom <= wpos
                   /\ wpos <= Len(history)
    /\ ~WatchOpened => watchFrom = 0 /\ wpos = 0

\* A watch opened at a listing taken after the collection had changed has
\* delivered a change that came after that listing.
C12_Witness ==
    /\ watching
    /\ listVersion > 0
    /\ watchFrom = listVersion
    /\ wpos > watchFrom

\* Every object the worker can come across: listed or carried by a change.
Met ==
    remote \cup Range(items) \cup {history[i].object : i \in DOMAIN history}

\* The upserts this cycle has issued for the object a change is about.
UpsertsOf(o) ==
    {i \in DOMAIN trace : /\ trace[i].op = "PutData"
                          /\ trace[i].obj # NoObj
                          /\ IdOf(trace[i].obj) = IdOf(o)}

\* C13: syncAdd and syncRemove address an object at the same path: its name
\* for a type that is not namespaced, "<namespace>/<name>" for one that is.
\* So a Deleted event removes exactly the path the snapshot load or an
\* earlier Added/Modified event wrote for that object, and no other.
C13_SamePath ==
    /\ \A o \in Met :
          /\ AddPath(namespaced, o) = RemovePath(namespaced, o)
          /\ AddPath(namespaced, o) =
                (IF namespaced THEN o.namespace \o "/" \o o.name ELSE o.name)
    /\ (pc = "select" /\ evt.type = "DELETED") =>
          LET c == trace[Len(trace)]
          IN  /\ c.op = "PatchData"
              /\ \A i \in UpsertsOf(evt.object) : trace[i].path = c.path
              /\ \A i \in DOMAIN trace :
                    (trace[i].op = "PutData" /\ i \notin UpsertsOf(evt.object))
                        => trace[i].path # c.path
              /\ c.path \notin DOMAIN data

\* Of two objects of one name in two namespaces, both loaded, one has been
\* deleted: its path is gone and the other is still there.
C13_Witness ==
    /\ namespaced
    /\ pc = "select"
    /\ evt.type = "DELETED"
    /\ UpsertsOf(evt.object) # {}
    /\ Cardinality(DOMAIN data) = 1

\* C14: the backoff delay always lies between backoffMin (1s) and
\* backoffMax (30s), and so does the duration of every backoff wait.
C14_DelayBounds ==
    /\ backoffMin <= delay
    /\ delay <= backoffMax
    /\ pc = "sleep" => /\ backoffMin <= timer
                       /\ timer <= backoffMax

\* The worker waits after a failure to open the watch.
C14_Witness ==
    /\ pc = "sleep"
    /\ err.msg = "watch"
    /\ timer >= backoffMin

Take ==
    /\ pc = "select"
    /\ wpos' = wpos + 1 \/ (chFault # "none" /\ chFault' = "none")

IsChange(e) == e.type \in {"ADDED", "MODIFIED", "DELETED"}

\* C16: every value taken from the watch channel is handled before the next
\* one is taken.  A change is the next one of the stream, in arrival order,
\* and leads to exactly one sink call, the upsert of an Added or Modified
\* object or the removal of a Deleted one, after which the loop either is
\* back at the select with the call applied or has ended the cycle with a
\* sink failure; any other value leads to no sink call and ends the cycle.
C16_OneOpPerEvent ==
    [][Take =>
         /\ chFault = "none" => evt' = history[wpos + 1]
         /\ chFault # "none" => ~IsChange(evt')
         /\ IF IsChange(evt')
              THEN /\ trace' = Append(trace, EventCall(evt'))
                   /\ \/ pc' = "select" /\ data' = ApplyEvent(data, evt')
                      \/ /\ pc' = "switch"
                         /\ err'.conv = "errOPA"
                         /\ data' = data
              ELSE /\ trace' = trace
                   /\ data' = data
                   /\ pc' = "switch"
                   /\ err' # Nil
    ]_vars

\* Two changes have been taken in one cycle, the second a Modified event,
\* and the last two sink calls are theirs, in the order they arrived.
C16_Witness ==
    /\ pc = "select"
    /\ Len(Consumed) = 2
    /\ evt.type = "MODIFIED"
    /\ evt = Consumed[2]
    /\ trace[Len(trace)] = EventCall(Consumed[2])
    /\ trace[Len(trace) - 1] = EventCall(Consumed[1])

LoadFailures == {"reset", "list add"}

\* C17: when the reset or the upsert of an item fails during the snapshot
\* load, the cycle ends at once as a sink failure: the failed call is the
\* last call of the cycle, no upsert of a later item and no Watch follows.
\* The next cycle starts from nothing: a fresh List, a reset, and the load
\* from the first item on; a load is never resumed at the item that failed.
C17_LoadAbort ==
    [][/\ (err = Nil /\ err'.msg \in LoadFailures) =>
             /\ pc' = "switch"
             /\ err'.conv = "errOPA"
             /\ ~watching'
       /\ (pc' \in {"switch", "sleep"} /\ err'.msg \in LoadFailures) =>
             /\ \A i \in DOMAIN trace' : trace'[i].op # "Watch"
             /\ IsPrefix(trace', CycleCalls(items', <<>>))
             /\ Len(trace') = (IF err'.msg = "reset" THEN 2 ELSE idx' + 3)
             /\ ~watching'
       /\ (pc = "sleep" /\ err.msg \in LoadFailures /\ pc' # pc) =>
             \/ pc' = "exit"
             \/ pc' = "sync" /\ trace' = <<>> /\ idx' = 0 /\ items' = <<>>
       /\ pc' = "sync" => trace' = <<>> /\ idx' = 0
       /\ pc' = "reset" => trace' = <<Call("List", "", NoObj)>> /\ idx' = 0
       /\ pc' = "load" =>
             trace' = SubSeq(CycleCalls(items', <<>>), 1, idx' + 2)
    ]_vars

\* The upsert of the second of two listed items has failed: the cycle has
\* issued List, reset and two upserts, and the worker waits.
C17_Witness ==
    /\ pc = "sleep"
    /\ err.msg = "list add"
    /\ Len(items) = 2
    /\ idx = 1
    /\ Len(trace) = 4

ListCall == Call("List", "", NoObj)

ResetCall == Call("PutData", "/", NoObj)

\* C18: a cycle whose List fails issues no sink call and opens no watch, and
\* leaves the subtree exactly as it was; the subtree is reset, or changed
\* at all, only in a cycle whose List has succeeded.
C18_ListFailure ==
    [][/\ (pc = "sync" /\ pc' = "switch") =>
             /\ err'.msg = "list"
             /\ data' = data
       /\ (pc' \in {"switch", "sleep"} /\ err'.msg = "list") =>
             /\ trace' = <<ListCall>>
             /\ ~watching'
             /\ data' = data
       /\ (trace' # trace /\ trace' # <<>> /\ trace'[Len(trace')] = ResetCall) =>
             /\ pc = "reset"
             /\ trace = <<ListCall>>
             /\ err = Nil
       /\ data' # data =>
             /\ pc \in {"reset", "load", "select"}
             /\ trace[1] = ListCall
             /\ err = Nil
    ]_vars

\* The List of a cycle has failed while the subtree held objects of an
\* earlier cycle: the worker waits, the only call of the cycle is the List.
C18_Witness ==
    /\ pc = "sleep"
    /\ err.msg = "list"
    /\ trace = <<ListCall>>
    /\ data # Empty

\* C19: for every failed cycle that is followed by a wait, the delay the
\* "Trying again in" message reports is the delay the loop then waits, for
\* sink failures and for source failures alike.
C19_LoggedIsWaited ==
    /\ pc = "sleep" => logged = timer
    /\ pc = "sleep" => err # Nil /\ timer = delay

\* The worker waits after a failed List: the message gave the duration of
\* the wait.
C19_Witness ==
    /\ pc = "sleep"
    /\ err.conv = "errKubernetes"
    /\ err.msg = "list"
    /\ logged = backoffMin
    /\ timer = logged

\* The places of the store that hold what worker w has mirrored.
MirroredBy(w) ==
    {k \in DOMAIN fleet.store : fleet.store[k].of = fleet.types[w]}

\* C20: two workers running side by side for two different resource types
\* (different in group, version or resource name) write under different
\* prefixes: no reset, upsert or remove of one of them changes or removes
\* anything the other has mirrored, however their calls interleave.
C20_DisjointSubtrees ==
    [][\A w \in Workers :
         fleet'.actor = w =>
            \A k \in MirroredBy(3 - w) :
                /\ k \in DOMAIN fleet'.store
                /\ fleet'.store[k] = fleet.store[k]
    ]_vars
====
